---- MODULE Spec2Model ----
(***************************************************************************)
(* A model of package gen (gen/generator.go): the Generator that walks the *)
(* worklist of types (addType, Add, Run, printHeader), the registry of     *)
(* generated function names (safeName, functionName), the table of import  *)
(* aliases (pkgAlias) and the field namers (camelToSnake).                 *)
(*                                                                         *)
(* Go strings are sequences of one-character strings, so that escaping,    *)
(* concatenation and prefix tests are computed character by character.     *)
(* A reflect.Type is an index into TypeTable: two indices are two distinct *)
(* types even when their package path and name are equal (unnamed structs).*)
(***************************************************************************)
EXTENDS Integers, Sequences, FiniteSets, TLC

\* ------------------------------------------------------------------ bounds

\* Types 1..NumTypes take part in the traversal (Add, addType, Run).
NumTypes == 2

\* g.functionNames holds at most MaxNames names.
MaxNames == 6

\* ----------------------------------------------------------------- strings

Lower == {"a", "b", "c", "d", "e", "f", "g", "h", "i", "j", "k", "l", "m",
          "n", "o", "p", "q", "r", "s", "t", "u", "v", "w", "x", "y", "z"}

Upper == {"A", "B", "C", "D", "E", "F", "G", "H", "I", "J", "K", "L", "M",
          "N", "O", "P", "Q", "R", "S", "T", "U", "V", "W", "X", "Y", "Z"}

DigitChars == <<"0", "1", "2", "3", "4", "5", "6", "7", "8", "9">>

IsLetter(c) == c \in Lower \cup Upper

IsDigit(c) == \E i \in DOMAIN DigitChars : DigitChars[i] = c

\* the elements of a sequence
Range(s) == {s[i] : i \in DOMAIN s}

\* strings.HasPrefix(s, prefix)
HasPrefix(s, prefix) ==
    /\ Len(prefix) <= Len(s)
    /\ SubSeq(s, 1, Len(prefix)) = prefix

\* fmt.Sprint(i) for an int i >= 0: its decimal digits
RECURSIVE Itoa(_)
Itoa(i) ==
    IF i < 10 THEN <<DigitChars[i + 1]>>
    ELSE Itoa(i \div 10) \o <<DigitChars[(i % 10) + 1]>>

\* ------------------------------------------------------------------- types

\* The reflect.Type values of the model: PkgPath() and Name() of each.
\* 1 and 2 are named types whose escaped names coincide, 3 and 4 are two
\* distinct unnamed types, 5 has the escaped name of 1 followed by "1".
TypeTable ==
    << [pkgPath |-> <<"a", "/", "b">>, name |-> <<"C">>],
       [pkgPath |-> <<"a", ".", "b">>, name |-> <<"C">>],
       [pkgPath |-> <<>>,              name |-> <<>>],
       [pkgPath |-> <<>>,              name |-> <<>>],
       [pkgPath |-> <<"a", "/", "b">>, name |-> <<"C", "1">>] >>

AllTypes == DOMAIN TypeTable

Types == 1..NumTypes

\* error values an emission collaborator or the writer may return; Nil is nil
Nil == "nil"

Errs == {"errA", "errB"}

WriteErr == "errWrite"

\* ------------------------------------------------------------------- state

Kinds == {"decoder", "encoder", "marshaller", "unmarshaller"}

VARIABLES
    out,            \* g.out: the body buffer, a sequence of emitted chunks
    pkgName,        \* g.pkgName
    buildTags,      \* g.buildTags
    imports,        \* g.imports: package path -> alias
    marshallers,    \* g.marshallers: the set of types mapped to true
    typesSeen,      \* g.typesSeen: the set of types mapped to true
    typesUnseen,    \* g.typesUnseen: the pending slice
    functionNames,  \* g.functionNames: function name -> type
    pc,             \* position of the Run call ("idle": no call in progress)
    cur,            \* Run's local t
    ret,            \* the value Run returns, once pc = "returned"
    writes,         \* arguments of the out.Write calls of this Run call
    printed,        \* lines this Run call printed on standard output
    log,            \* collaborator calls of this Run call: <<kind, type, result>>
    nested,         \* addType calls of the collaborators of this Run call for
                    \* a type other than Run's t: <<type, where the type was>>
    calls,          \* calls[kind][t]: collaborator calls for t since NewGenerator
    aborted,        \* some Run call returned the error of a collaborator
    addedUnseen,    \* types passed to Add while not yet seen
    requested,      \* types passed to Add or addType since NewGenerator
    returned,       \* every functionName call so far: <<prefix, type, name>>
    aliased,        \* every pkgAlias call so far: <<package path, alias>>
    field,          \* the reflect.StructField given to the field namers
    jsonNames       \* what each naming function returned for field

genVars == <<out, pkgName, buildTags, imports, marshallers, typesSeen, typesUnseen>>

callVars == <<pc, cur, ret, writes, printed, log, nested>>

histVars == <<calls, aborted, addedUnseen, requested>>

nameVars == <<functionNames, returned>>

aliasVars == <<aliased>>

namerVars == <<field, jsonNames>>

vars == <<genVars, callVars, histVars, nameVars, aliasVars, namerVars>>

\* ---------------------------------------------------------- NewGenerator

pkgWriter ==
    <<"g", "i", "t", "h", "u", "b", ".", "c", "o", "m", "/",
      "m", "a", "i", "l", "r", "u", "/", "e", "a", "s", "y", "j", "s", "o", "n", "/",
      "j", "w", "r", "i", "t", "e", "r">>

pkgLexer ==
    <<"g", "i", "t", "h", "u", "b", ".", "c", "o", "m", "/",
      "m", "a", "i", "l", "r", "u", "/", "e", "a", "s", "y", "j", "s", "o", "n", "/",
      "j", "l", "e", "x", "e", "r">>

pkgJSON == <<"e", "n", "c", "o", "d", "i", "n", "g", "/", "j", "s", "o", "n">>

NewGenerator ==
    /\ out = <<>>
    /\ pkgName = ""
    /\ buildTags = ""
    /\ imports = (pkgWriter :> <<"j", "w", "r", "i", "t", "e", "r">>)
                 @@ (pkgLexer :> <<"j", "l", "e", "x", "e", "r">>)
                 @@ (pkgJSON :> <<"j", "s", "o", "n">>)
    /\ marshallers = {}
    /\ typesSeen = {}
    /\ typesUnseen = <<>>
    /\ functionNames = <<>>

\* a new Generator, no call in progress, nothing called yet
InitGenerator ==
    /\ NewGenerator
    /\ pc = "idle"
    /\ cur = 0
    /\ ret = "none"
    /\ writes = <<>>
    /\ printed = <<>>
    /\ log = <<>>
    /\ calls = [k \in Kinds |-> [t \in Types |-> 0]]
    /\ aborted = FALSE
    /\ addedUnseen = {}
    /\ requested = {}
    /\ nested = {}
    /\ returned = {}
    /\ aliased = {}

Init ==
    /\ InitGenerator
    /\ field = [Name |-> <<>>, Tag |-> <<>>]
    /\ jsonNames = <<>>

\* ------------------------------------------------------------ addType, Add

\* addType without the test of typesSeen
addTypeNoSeenTest(seen, unseen, t) ==
    IF \E i \in DOMAIN unseen : unseen[i] = t THEN unseen
    ELSE Append(unseen, t)

\* addType without the scan of typesUnseen
addTypeNoPendingScan(seen, unseen, t) ==
    IF t \in seen THEN unseen ELSE Append(unseen, t)

\* g.addType(t): the value of g.typesUnseen after the call
addType(seen, unseen, t) ==
    IF t \in seen THEN unseen
    ELSE IF \E i \in DOMAIN unseen : unseen[i] = t THEN unseen
    ELSE Append(unseen, t)

\* g.addType(t), called by the package's own code outside Run
AddTypeCall ==
    /\ pc = "idle"
    /\ \E t \in Types :
         /\ typesUnseen' = addType(typesSeen, typesUnseen, t)
         /\ requested' = requested \cup {t}
    /\ UNCHANGED <<out, pkgName, buildTags, imports, marshallers, typesSeen>>
    /\ UNCHANGED <<calls, aborted, addedUnseen>>
    /\ UNCHANGED <<callVars, nameVars, aliasVars, namerVars>>

\* Add that requests the type and leaves g.marshallers alone
AddWithoutMarshaller ==
    /\ pc = "idle"
    /\ \E t \in Types :
         /\ typesUnseen' = addType(typesSeen, typesUnseen, t)
         /\ addedUnseen' = IF t \in typesSeen THEN addedUnseen
                           ELSE addedUnseen \cup {t}
         /\ requested' = requested \cup {t}
    /\ UNCHANGED <<out, pkgName, buildTags, imports, marshallers, typesSeen>>
    /\ UNCHANGED <<calls, aborted>>
    /\ UNCHANGED <<callVars, nameVars, aliasVars, namerVars>>

\* g.Add(obj), t being reflect.TypeOf(obj)
Add ==
    /\ pc = "idle"
    /\ \E t \in Types :
         /\ typesUnseen' = addType(typesSeen, typesUnseen, t)
         /\ marshallers' = marshallers \cup {t}
         /\ addedUnseen' = IF t \in typesSeen THEN addedUnseen
                           ELSE addedUnseen \cup {t}
         /\ requested' = requested \cup {t}
    /\ UNCHANGED <<out, pkgName, buildTags, imports, typesSeen>>
    /\ UNCHANGED <<calls, aborted>>
    /\ UNCHANGED <<callVars, nameVars, aliasVars, namerVars>>

\* g.SetPkg(name, path)
PkgNames == {"main"}

SetPkg ==
    /\ pc = "idle"
    /\ \E name \in PkgNames : pkgName' = name
    /\ UNCHANGED <<out, buildTags, imports, marshallers, typesSeen, typesUnseen>>
    /\ UNCHANGED <<callVars, histVars, nameVars, aliasVars, namerVars>>

\* g.SetBuildTags(tags)
BuildTags == {"", "easyjson"}

SetBuildTags ==
    /\ pc = "idle"
    /\ \E tags \in BuildTags : buildTags' = tags
    /\ UNCHANGED <<out, pkgName, imports, marshallers, typesSeen, typesUnseen>>
    /\ UNCHANGED <<callVars, histVars, nameVars, aliasVars, namerVars>>

\* ------------------------------------------------- emission collaborators

\* Where type t is: seen, pending, or new to the Generator.
Where(t) ==
    IF t \in typesSeen THEN "seen"
    ELSE IF \E i \in DOMAIN typesUnseen : typesUnseen[i] = t THEN "pending"
    ELSE "new"

\* genStructDecoder and genStructEncoder, while they run for Run's t,
\* request a nested type: g.addType(t1)
CollabAddType ==
    /\ pc \in {"decoder", "encoder"}
    /\ \E t1 \in Types :
         /\ typesUnseen' = addType(typesSeen, typesUnseen, t1)
         /\ nested' = IF t1 = cur THEN nested
                      ELSE nested \cup {<<t1, Where(t1)>>}
         /\ requested' = requested \cup {t1}
    /\ UNCHANGED <<out, pkgName, buildTags, imports, marshallers, typesSeen>>
    /\ UNCHANGED <<pc, cur, ret, writes, printed, log>>
    /\ UNCHANGED <<calls, aborted, addedUnseen>>
    /\ UNCHANGED <<nameVars, aliasVars, namerVars>>

\* The call of genStructDecoder, genStructEncoder, genStructMarshaller or
\* genStructUnmarshaller for type t returns err: on success its code has
\* been appended to g.out.
Emit(kind, t, err) ==
    /\ out' = IF err = Nil THEN Append(out, <<kind, t>>) ELSE out
    /\ log' = Append(log, <<kind, t, err>>)
    /\ calls' = [calls EXCEPT ![kind][t] = @ + 1]

\* ------------------------------------------------------------ printHeader

\* The orders in which a range over a map with key set S may visit it.
Perms(S) ==
    {f \in [1..Cardinality(S) -> S] : \A x \in S : \E i \in DOMAIN f : f[i] = x}

\* byAlias after the first loop of printHeader visited the paths in order
RECURSIVE byAliasOf(_, _)
byAliasOf(imp, order) ==
    IF order = <<>> THEN <<>>
    ELSE LET n == Len(order)
             rest == byAliasOf(imp, SubSeq(order, 1, n - 1))
             alias == imp[order[n]]
         IN  [a \in DOMAIN rest \cup {alias} |->
                 IF a = alias THEN order[n] ELSE rest[a]]

\* The lines printHeader prints on standard output, each <<text, operands>>,
\* when its two loops visit g.imports in order1 and in order2.
printHeader(tags, name, imp, order1, order2) ==
    LET byAlias == byAliasOf(imp, order1)
    IN  (IF tags # "" THEN << <<"// +build ", tags>>, <<"">> >> ELSE <<>>)
        \o << <<"package ", name>>, <<"">>, <<"import (">> >>
        \o [i \in 1..Len(order2) |->
               <<"  %s %q", imp[order2[i]], byAlias[imp[order2[i]]]>>]
        \o << <<")">>, <<"">>,
              <<"var _ = json.RawMessage{} // suppress unused package warning">>,
              <<"">> >>

\* -------------------------------------------------------------------- Run

\* Run, line 143: a new body buffer
RunEnter ==
    /\ pc = "idle"
    /\ out' = <<>>
    /\ pc' = "loop"
    /\ UNCHANGED <<pkgName, buildTags, imports, marshallers, typesSeen, typesUnseen>>
    /\ UNCHANGED <<cur, ret, writes, printed, log, nested>>
    /\ UNCHANGED <<histVars, nameVars, aliasVars, namerVars>>

\* the pop taking the first pending type
RunPopFirst ==
    /\ pc = "loop"
    /\ Len(typesUnseen) > 0
    /\ cur' = typesUnseen[1]
    /\ typesUnseen' = Tail(typesUnseen)
    /\ typesSeen' = typesSeen \cup {typesUnseen[1]}
    /\ pc' = "decoder"
    /\ UNCHANGED <<out, pkgName, buildTags, imports, marshallers>>
    /\ UNCHANGED <<ret, writes, printed, log, nested>>
    /\ UNCHANGED <<histVars, nameVars, aliasVars, namerVars>>

\* Run, lines 145-148: pop the last pending type and mark it seen
RunPop ==
    /\ pc = "loop"
    /\ Len(typesUnseen) > 0
    /\ cur' = typesUnseen[Len(typesUnseen)]
    /\ typesUnseen' = SubSeq(typesUnseen, 1, Len(typesUnseen) - 1)
    /\ typesSeen' = typesSeen \cup {typesUnseen[Len(typesUnseen)]}
    /\ pc' = "decoder"
    /\ UNCHANGED <<out, pkgName, buildTags, imports, marshallers>>
    /\ UNCHANGED <<ret, writes, printed, log, nested>>
    /\ UNCHANGED <<histVars, nameVars, aliasVars, namerVars>>

\* return err: Run is over, nothing else of it runs
ReturnErr(err) ==
    /\ pc' = "returned"
    /\ ret' = err
    /\ aborted' = TRUE

\* the decoder step going on to the encoder whatever the decoder returned
RunGenDecoderIgnoringError ==
    /\ pc = "decoder"
    /\ \E err \in {Nil} \cup Errs :
         /\ Emit("decoder", cur, err)
         /\ pc' = "encoder" /\ UNCHANGED <<ret, aborted>>
    /\ UNCHANGED <<pkgName, buildTags, imports, marshallers, typesSeen, typesUnseen>>
    /\ UNCHANGED <<cur, writes, printed, nested, addedUnseen, requested>>
    /\ UNCHANGED <<nameVars, aliasVars, namerVars>>

\* Run, lines 150-152
RunGenDecoder ==
    /\ pc = "decoder"
    /\ \E err \in {Nil} \cup Errs :
         /\ Emit("decoder", cur, err)
         /\ IF err # Nil
            THEN ReturnErr(err)
            ELSE pc' = "encoder" /\ UNCHANGED <<ret, aborted>>
    /\ UNCHANGED <<pkgName, buildTags, imports, marshallers, typesSeen, typesUnseen>>
    /\ UNCHANGED <<cur, writes, printed, nested, addedUnseen, requested>>
    /\ UNCHANGED <<nameVars, aliasVars, namerVars>>

\* the encoder step without the test of g.marshallers
RunGenEncoderAlwaysMarshalling ==
    /\ pc = "encoder"
    /\ \E err \in {Nil} \cup Errs :
         /\ Emit("encoder", cur, err)
         /\ IF err # Nil
            THEN ReturnErr(err)
            ELSE pc' = "marshaller" /\ UNCHANGED <<ret, aborted>>
    /\ UNCHANGED <<pkgName, buildTags, imports, marshallers, typesSeen, typesUnseen>>
    /\ UNCHANGED <<cur, writes, printed, nested, addedUnseen, requested>>
    /\ UNCHANGED <<nameVars, aliasVars, namerVars>>

\* Run, lines 153-159
RunGenEncoder ==
    /\ pc = "encoder"
    /\ \E err \in {Nil} \cup Errs :
         /\ Emit("encoder", cur, err)
         /\ IF err # Nil
            THEN ReturnErr(err)
            ELSE /\ pc' = IF cur \in marshallers THEN "marshaller" ELSE "loop"
                 /\ UNCHANGED <<ret, aborted>>
    /\ UNCHANGED <<pkgName, buildTags, imports, marshallers, typesSeen, typesUnseen>>
    /\ UNCHANGED <<cur, writes, printed, nested, addedUnseen, requested>>
    /\ UNCHANGED <<nameVars, aliasVars, namerVars>>

\* Run, lines 161-163
RunGenMarshaller ==
    /\ pc = "marshaller"
    /\ \E err \in {Nil} \cup Errs :
         /\ Emit("marshaller", cur, err)
         /\ IF err # Nil
            THEN ReturnErr(err)
            ELSE pc' = "unmarshaller" /\ UNCHANGED <<ret, aborted>>
    /\ UNCHANGED <<pkgName, buildTags, imports, marshallers, typesSeen, typesUnseen>>
    /\ UNCHANGED <<cur, writes, printed, nested, addedUnseen, requested>>
    /\ UNCHANGED <<nameVars, aliasVars, namerVars>>

\* Run, lines 164-167
RunGenUnmarshaller ==
    /\ pc = "unmarshaller"
    /\ \E err \in {Nil} \cup Errs :
         /\ Emit("unmarshaller", cur, err)
         /\ IF err # Nil
            THEN ReturnErr(err)
            ELSE pc' = "loop" /\ UNCHANGED <<ret, aborted>>
    /\ UNCHANGED <<pkgName, buildTags, imports, marshallers, typesSeen, typesUnseen>>
    /\ UNCHANGED <<cur, writes, printed, nested, addedUnseen, requested>>
    /\ UNCHANGED <<nameVars, aliasVars, namerVars>>

\* the header and the Write of lines 168-170 inside the loop, after every type
RunFinishInsideLoop ==
    /\ pc = "loop"
    /\ \E order1 \in Perms(DOMAIN imports), order2 \in Perms(DOMAIN imports) :
         printed' = printed \o printHeader(buildTags, pkgName, imports, order1, order2)
    /\ writes' = Append(writes, out)
    /\ \E err \in {Nil, WriteErr} : ret' = err
    /\ pc' = "returned"
    /\ UNCHANGED genVars
    /\ UNCHANGED <<cur, log, nested>>
    /\ UNCHANGED <<histVars, nameVars, aliasVars, namerVars>>

\* Run leaving its loop with one type still pending
RunFinishBeforeLast ==
    /\ pc = "loop"
    /\ Len(typesUnseen) <= 1
    /\ \E order1 \in Perms(DOMAIN imports), order2 \in Perms(DOMAIN imports) :
         printed' = printed \o printHeader(buildTags, pkgName, imports, order1, order2)
    /\ writes' = Append(writes, out)
    /\ \E err \in {Nil, WriteErr} : ret' = err
    /\ pc' = "returned"
    /\ UNCHANGED genVars
    /\ UNCHANGED <<cur, log, nested>>
    /\ UNCHANGED <<histVars, nameVars, aliasVars, namerVars>>

\* Run, lines 145 and 168-170: the loop is over; print the header, write
\* the body buffer to out and return what Write returned
RunFinish ==
    /\ pc = "loop"
    /\ Len(typesUnseen) = 0
    /\ \E order1 \in Perms(DOMAIN imports), order2 \in Perms(DOMAIN imports) :
         printed' = printed \o printHeader(buildTags, pkgName, imports, order1, order2)
    /\ writes' = Append(writes, out)
    /\ \E err \in {Nil, WriteErr} : ret' = err
    /\ pc' = "returned"
    /\ UNCHANGED genVars
    /\ UNCHANGED <<cur, log, nested>>
    /\ UNCHANGED <<histVars, nameVars, aliasVars, namerVars>>

\* The caller has the result of Run: the call, its locals and what is
\* recorded of it are gone.
RunReturn ==
    /\ pc = "returned"
    /\ pc' = "idle"
    /\ cur' = 0
    /\ ret' = "none"
    /\ writes' = <<>>
    /\ printed' = <<>>
    /\ log' = <<>>
    /\ nested' = {}
    /\ UNCHANGED <<genVars, histVars, nameVars, aliasVars, namerVars>>

NextRun ==
    \/ AddTypeCall
    \/ Add
    \/ SetPkg
    \/ SetBuildTags
    \/ RunEnter
    \/ RunPop
    \/ CollabAddType
    \/ RunGenDecoder
    \/ RunGenEncoder
    \/ RunGenMarshaller
    \/ RunGenUnmarshaller
    \/ RunFinish
    \/ RunReturn

\* The Generator under Add, addType, SetPkg, SetBuildTags and Run.
SpecRun == Init /\ [][NextRun]_vars

\* the next step of a Run call in progress
RunStep ==
    \/ RunPop
    \/ RunGenDecoder
    \/ RunGenEncoder
    \/ RunGenMarshaller
    \/ RunGenUnmarshaller
    \/ RunFinish

\* what the caller does between Run calls leaves no trace in a Run call but
\* the pending types and g.marshallers: Add stands for it
NextRunFair ==
    \/ Add
    \/ RunEnter
    \/ RunPop
    \/ CollabAddType
    \/ RunGenDecoder
    \/ RunGenEncoder
    \/ RunGenMarshaller
    \/ RunGenUnmarshaller
    \/ RunFinish
    \/ RunReturn

\* Run is sequential code and its collaborators and the writer return: a
\* Run call in progress takes its next step.
SpecRunFair == Init /\ [][NextRunFair]_vars /\ WF_vars(RunStep)

\* ------------------------------------------------- safeName, functionName

Anonymous == <<"a", "n", "o", "n", "y", "m", "o", "u", "s">>

\* safeName(t)
safeName(t) ==
    LET name == IF TypeTable[t].name = <<>>
                THEN TypeTable[t].pkgPath \o Anonymous
                ELSE TypeTable[t].pkgPath \o <<".">> \o TypeTable[t].name
    IN  [i \in 1..Len(name) |->
            IF IsLetter(name[i]) \/ IsDigit(name[i]) THEN name[i] ELSE "_"]

\* m[k] = v on a Go map m
Put(m, k, v) == [x \in DOMAIN m \cup {k} |-> IF x = k THEN v ELSE m[x]]

\* functionName, lines 259-266: the first of name1, name2, ... from name<i>
\* on that is no key of g.functionNames
RECURSIVE NewName(_, _, _)
NewName(fn, name, i) ==
    IF (name \o Itoa(i)) \in DOMAIN fn THEN NewName(fn, name, i + 1)
    ELSE name \o Itoa(i)

\* functionName that takes the shortcut whoever owns the name
functionNameAlwaysShortcut(fn, prefix, t) ==
    {[name |-> prefix \o safeName(t), reg |-> Put(fn, prefix \o safeName(t), t)]}

\* g.functionName(prefix, t) with g.functionNames = fn: the results the call
\* may have, each the name returned and g.functionNames after the call. The
\* range over the map returns the first match in an unspecified order, so
\* every match is a possible result.
functionName(fn, prefix, t) ==
    LET name == prefix \o safeName(t)
        found == {name1 \in DOMAIN fn : fn[name1] = t /\ HasPrefix(name1, prefix)}
    IN  IF name \notin DOMAIN fn \/ fn[name] = t
        THEN {[name |-> name, reg |-> Put(fn, name, t)]}
        ELSE IF found # {}
        THEN {[name |-> name1, reg |-> fn] : name1 \in found}
        ELSE {[name |-> NewName(fn, name, 1), reg |-> Put(fn, NewName(fn, name, 1), t)]}

\* The prefixes functionName is called with: two of which neither is a
\* prefix of the other, and one that extends another.
Prefixes == {<<"d", "_">>, <<"e", "_">>, <<"d", "_", "x">>}

\* one call g.functionName(prefix, t)
FunctionNameCall ==
    /\ \E prefix \in Prefixes, t \in AllTypes :
         \E r \in functionName(functionNames, prefix, t) :
            /\ Cardinality(DOMAIN r.reg) <= MaxNames
            /\ functionNames' = r.reg
            /\ returned' = returned \cup {<<prefix, t, r.name>>}
    /\ UNCHANGED <<genVars, callVars, histVars>>
    /\ UNCHANGED <<aliasVars, namerVars>>

NextNames == FunctionNameCall

\* The Generator under functionName calls.
SpecNames == Init /\ [][NextNames]_vars

\* ------------------------------------------------------ traversal claims

Pending == Range(typesUnseen)

\* Run has returned nil to its caller
ReturnedNil == pc = "returned" /\ ret = Nil

\* C1: when Run returns nil on a Generator none of whose Run calls aborted,
\* the decoder and the encoder collaborator have each been called exactly
\* once for every type ever passed to Add or addType and never for another
\* type; and at no time has either been called twice for a type.
C1_EveryTypeOnce ==
    /\ \A t \in Types :
         calls["decoder"][t] <= 1 /\ calls["encoder"][t] <= 1
    /\ (ReturnedNil /\ ~aborted) =>
         \A t \in Types :
            /\ calls["decoder"][t] = (IF t \in requested THEN 1 ELSE 0)
            /\ calls["encoder"][t] = (IF t \in requested THEN 1 ELSE 0)

\* Run returned nil after emitting both types, one registered by Add and one
\* discovered by a collaborator, which also requested a type already seen.
C1_Witness ==
    /\ ReturnedNil /\ ~aborted
    /\ requested = Types
    /\ \E t \in Types : <<t, "new">> \in nested
    /\ \E t \in Types : <<t, "seen">> \in nested
    /\ \A t \in Types : calls["decoder"][t] = 1 /\ calls["encoder"][t] = 1

\* C2: no type is both pending and seen, no type is pending twice, and no
\* step appends a type that is seen to the pending list (nor unmarks it).
C2_PendingSeenDisjoint ==
    /\ [](/\ Pending \cap typesSeen = {}
          /\ \A i, j \in DOMAIN typesUnseen :
                typesUnseen[i] = typesUnseen[j] => i = j)
    /\ [][\A t \in typesSeen :
             t \in typesSeen' /\ t \notin {typesUnseen'[i] : i \in DOMAIN typesUnseen'}]_vars

\* Collaborators requested a type that was seen and a type that was
\* pending, and every type has been popped.
C2_Witness ==
    /\ \E t \in Types : <<t, "seen">> \in nested
    /\ \E t \in Types : <<t, "pending">> \in nested
    /\ typesSeen = Types

\* C3: when Run returns nil on a Generator none of whose Run calls aborted,
\* each of the four collaborators has been called exactly once for every
\* type that was passed to Add before it was popped.
C3_AddedTypesFullyEmitted ==
    (ReturnedNil /\ ~aborted) =>
        \A t \in addedUnseen : \A k \in Kinds : calls[k][t] = 1

\* Two types were passed to Add and emitted by this Run call; a collaborator
\* requested one while it was pending and the other when it was seen.
C3_Witness ==
    /\ ReturnedNil /\ ~aborted
    /\ Len(log) = 8
    /\ \E a, b \in addedUnseen :
         /\ a # b
         /\ <<a, "pending">> \in nested
         /\ <<b, "seen">> \in nested
         /\ \A k \in Kinds : calls[k][a] = 1 /\ calls[k][b] = 1

\* C4: the marshaller and unmarshaller collaborators are never called for a
\* type outside g.marshallers; such a type, once requested, has its decoder
\* and encoder emitted when Run returns nil (no Run call having aborted).
C4_NestedOnlyCodec ==
    /\ \A t \in Types \ marshallers :
         calls["marshaller"][t] = 0 /\ calls["unmarshaller"][t] = 0
    /\ \A i \in DOMAIN log :
         log[i][1] \in {"marshaller", "unmarshaller"} => log[i][2] \in marshallers
    /\ (ReturnedNil /\ ~aborted) =>
         \A t \in requested \ marshallers :
            calls["decoder"][t] = 1 /\ calls["encoder"][t] = 1

\* Run returned nil having emitted a type that only a collaborator requested
\* (decoder and encoder, no marshaller) next to a type passed to Add.
C4_Witness ==
    /\ ReturnedNil /\ ~aborted
    /\ \E t \in Types \ marshallers :
         /\ <<t, "new">> \in nested
         /\ calls["decoder"][t] = 1 /\ calls["encoder"][t] = 1
         /\ calls["marshaller"][t] = 0 /\ calls["unmarshaller"][t] = 0
    /\ \E t \in marshallers :
         calls["marshaller"][t] = 1 /\ calls["unmarshaller"][t] = 1

\* C5: a collaborator call that returned an error is the last collaborator
\* call of its Run call, nothing is popped after it, and Run has returned
\* that same error value.
C5_FirstErrorReturned ==
    \A i \in DOMAIN log :
        log[i][3] # Nil =>
            /\ i = Len(log)
            /\ pc = "returned"
            /\ ret = log[i][3]
            /\ cur = log[i][2]

\* Run returned the decoder's error for a type in g.marshallers, with a
\* type still pending.
C5_Witness ==
    /\ pc = "returned"
    /\ ret = "errB"
    /\ log[Len(log)] = <<"decoder", cur, "errB">>
    /\ cur \in marshallers
    /\ Len(typesUnseen) > 0

\* C6: Run calls out.Write at most once, with the body buffer, and only when
\* the worklist is empty and no collaborator returned an error; a Run that
\* returned a collaborator's error wrote nothing and printed nothing.
C6_WriteOnceAfterLoop ==
    /\ Len(writes) <= 1
    /\ writes # <<>> =>
         /\ pc = "returned"
         /\ Len(typesUnseen) = 0
         /\ \A i \in DOMAIN log : log[i][3] = Nil
         /\ writes[1] = out
    /\ (pc = "returned" /\ ret \in Errs) => (writes = <<>> /\ printed = <<>>)

\* Run returned a collaborator's error with code already in the body buffer.
C6_Witness ==
    /\ pc = "returned"
    /\ ret \in Errs
    /\ Len(out) > 0
    /\ writes = <<>>
    /\ printed = <<>>

\* C7: when Run returns nil, what it wrote to out is the header followed by
\* the body buffer.
C7_HeaderPrepended ==
    ReturnedNil =>
        /\ Len(writes) = 1
        /\ \E order1 \in Perms(DOMAIN imports), order2 \in Perms(DOMAIN imports) :
             writes[1] = printHeader(buildTags, pkgName, imports, order1, order2) \o out

\* -------------------------------------------------- function name claims

\* C8: two functionName calls with the same prefix and type return the same
\* name, whatever calls were made between them.
C8_StableName ==
    \A r1, r2 \in returned :
        (r1[1] = r2[1] /\ r1[2] = r2[2]) => r1[3] = r2[3]

\* C9: names returned for two distinct types differ, every name ever
\* returned for a type is still registered to that type, and no step removes
\* a name from the registry or maps it to another type.
C9_DistinctTypesDistinctNames ==
    /\ [](/\ \A r1, r2 \in returned : r1[2] # r2[2] => r1[3] # r2[3]
          /\ \A r \in returned :
                r[3] \in DOMAIN functionNames /\ functionNames[r[3]] = r[2])
    /\ [][\A n \in DOMAIN functionNames :
             n \in DOMAIN functionNames' /\ functionNames'[n] = functionNames[n]]_vars

\* Under one prefix, names have been returned for the two named types whose
\* escaped names coincide, for the two unnamed types, and for the type whose
\* escaped name is the first clash name of another.
C9_Witness ==
    \E p \in Prefixes :
        /\ safeName(1) = safeName(2)
        /\ safeName(3) = safeName(4)
        /\ \A t \in AllTypes : \E r \in returned : r[1] = p /\ r[2] = t
        /\ <<p, 5, p \o safeName(5)>> \notin returned

\* C10: for one type, the names returned under two different prefixes differ,
\* and every name returned begins with its prefix followed by the escaped
\* name of its type.
C10_UniquePerPrefixAndType ==
    /\ \A r1, r2 \in returned :
          (r1[2] = r2[2] /\ r1[1] # r2[1]) => r1[3] # r2[3]
    /\ \A r \in returned : HasPrefix(r[3], r[1] \o safeName(r[2]))

\* --------------------------------------------------------------- pkgAlias

\* path.Base(p): p without its trailing slashes, from its last slash on
RECURSIVE TrimSlashes(_)
TrimSlashes(p) ==
    IF p # <<>> /\ p[Len(p)] = "/" THEN TrimSlashes(SubSeq(p, 1, Len(p) - 1))
    ELSE p

Base(p) ==
    IF p = <<>> THEN <<".">>
    ELSE LET q == TrimSlashes(p)
             slashes == {i \in DOMAIN q : q[i] = "/"}
             last == IF slashes = {} THEN 0
                     ELSE CHOOSE i \in slashes : \A j \in slashes : j <= i
         IN  IF q = <<>> THEN <<"/">> ELSE SubSeq(q, last + 1, Len(q))

\* the loop of pkgAlias appending the number in its first round too
RECURSIVE FreeAliasNumberedFromZero(_, _, _)
FreeAliasNumberedFromZero(imp, base, i) ==
    LET alias == base \o Itoa(i)
    IN  IF \E p \in DOMAIN imp : imp[p] = alias
        THEN FreeAliasNumberedFromZero(imp, base, i + 1)
        ELSE alias

\* pkgAlias, lines 179-197: the loop from round i on; the alias it settles on
RECURSIVE FreeAlias(_, _, _)
FreeAlias(imp, base, i) ==
    LET alias == IF i > 0 THEN base \o Itoa(i) ELSE base
    IN  IF \E p \in DOMAIN imp : imp[p] = alias
        THEN FreeAlias(imp, base, i + 1)
        ELSE alias


\* pkgAlias that never looks the path up
pkgAliasNoLookup(imp, pkgPath) ==
    [alias |-> FreeAlias(imp, Base(pkgPath), 0),
     imports |-> Put(imp, pkgPath, FreeAlias(imp, Base(pkgPath), 0))]

\* pkgAlias that takes the last segment whoever has it
pkgAliasNoScan(imp, pkgPath) ==
    IF pkgPath \in DOMAIN imp /\ imp[pkgPath] # <<>>
    THEN [alias |-> imp[pkgPath], imports |-> imp]
    ELSE [alias |-> Base(pkgPath), imports |-> Put(imp, pkgPath, Base(pkgPath))]

\* g.pkgAlias(pkgPath) with g.imports = imp: the alias returned and g.imports
\* after the call
pkgAlias(imp, pkgPath) ==
    IF pkgPath \in DOMAIN imp /\ imp[pkgPath] # <<>>
    THEN [alias |-> imp[pkgPath], imports |-> imp]
    ELSE [alias |-> FreeAlias(imp, Base(pkgPath), 0),
          imports |-> Put(imp, pkgPath, FreeAlias(imp, Base(pkgPath), 0))]

\* The package paths pkgAlias is called with: the three of NewGenerator,
\* three whose last segment is "a" (one with a trailing slash), one whose
\* last segment "a1" is the first numbered alias of "a", and one whose last
\* segment is the alias of a path of NewGenerator.
PkgPaths ==
    {pkgWriter, pkgLexer, pkgJSON,
     <<"x", "/", "a">>, <<"y", "/", "a">>, <<"a", "/">>,
     <<"z", "/", "a", "1">>, <<"v", "/", "j", "s", "o", "n">>}

\* one call g.pkgAlias(pkgPath)
PkgAliasCall ==
    /\ \E pkgPath \in PkgPaths :
         LET r == pkgAlias(imports, pkgPath)
         IN  /\ imports' = r.imports
             /\ aliased' = aliased \cup {<<pkgPath, r.alias>>}
    /\ UNCHANGED <<out, pkgName, buildTags, marshallers, typesSeen, typesUnseen>>
    /\ UNCHANGED <<callVars, histVars, nameVars, namerVars>>

NextAlias == PkgAliasCall

\* The Generator under pkgAlias calls.
SpecAlias == Init /\ [][NextAlias]_vars

\* ------------------------------------------------------------ alias claims

\* the aliases in use
Aliases == {imports[p] : p \in DOMAIN imports}

\* C11: all pkgAlias calls for one path have returned the same alias, which
\* is the alias the imports table still has for it; for the three paths of
\* NewGenerator that alias is jwriter, jlexer and json.
C11_AliasStable ==
    /\ \A r1, r2 \in aliased : r1[1] = r2[1] => r1[2] = r2[2]
    /\ \A r \in aliased : r[1] \in DOMAIN imports /\ imports[r[1]] = r[2]
    /\ \A r \in aliased :
         /\ r[1] = pkgWriter => r[2] = <<"j", "w", "r", "i", "t", "e", "r">>
         /\ r[1] = pkgLexer => r[2] = <<"j", "l", "e", "x", "e", "r">>
         /\ r[1] = pkgJSON => r[2] = <<"j", "s", "o", "n">>

\* pkgAlias has been called for every path, the three of NewGenerator
\* included, and the paths with last segment "a" got three different aliases.
C11_Witness ==
    /\ {r[1] : r \in aliased} = PkgPaths
    /\ Cardinality({r[2] : r \in {x \in aliased : Base(x[1]) = <<"a">>}}) = 3

\* C12: no two distinct paths of the imports table have the same alias.
C12_AliasInjective ==
    \A p1, p2 \in DOMAIN imports : imports[p1] = imports[p2] => p1 = p2

\* The path with last segment "a1" was aliased after "a" and "a1" were
\* taken, and the path with last segment "json" after NewGenerator took it.
C12_Witness ==
    /\ DOMAIN imports = PkgPaths
    /\ imports[<<"z", "/", "a", "1">>] = <<"a", "1", "1">>
    /\ imports[<<"v", "/", "j", "s", "o", "n">>] = <<"j", "s", "o", "n", "1">>

\* C18: a step that adds a path to the imports table adds that path alone,
\* with the alias just returned: its last segment if no path has that alias,
\* else its last segment followed by the least i >= 1 for which no path has
\* that alias; it changes no other entry. A step that adds no path leaves
\* the table as it is.
C18_SmallestFreeAlias ==
    [][/\ \A p \in DOMAIN imports : p \in DOMAIN imports' /\ imports'[p] = imports[p]
       /\ \A p \in DOMAIN imports' \ DOMAIN imports :
            LET base == Base(p)
                n == Cardinality(DOMAIN imports) + 1
                least == CHOOSE i \in 1..n :
                            /\ (base \o Itoa(i)) \notin Aliases
                            /\ \A j \in 1..(i - 1) : (base \o Itoa(j)) \in Aliases
                expected == IF base \notin Aliases THEN base ELSE base \o Itoa(least)
            IN  /\ DOMAIN imports' = DOMAIN imports \cup {p}
                /\ imports'[p] = expected
                /\ aliased' = aliased \cup {<<p, expected>>}]_vars

\* A path was aliased with its bare last segment, and another with its last
\* segment followed by 2, the aliases with nothing and with 1 being taken.
C18_Witness ==
    /\ \E p \in DOMAIN imports : imports[p] = <<"a">>
    /\ \E p \in DOMAIN imports : imports[p] = <<"a", "1">> /\ Base(p) = <<"a">>
    /\ \E p \in DOMAIN imports : imports[p] = <<"a", "2">>
    /\ \E p \in DOMAIN imports : imports[p] = <<"j", "s", "o", "n", "1">>


\* ----------------------------------------------- camelToSnake, field namers

\* Identifiers have at most MaxIdent characters (the fixtures apart).
MaxIdent == 4

LowerSeq == <<"a", "b", "c", "d", "e", "f", "g", "h", "i", "j", "k", "l", "m",
              "n", "o", "p", "q", "r", "s", "t", "u", "v", "w", "x", "y", "z">>

UpperSeq == <<"A", "B", "C", "D", "E", "F", "G", "H", "I", "J", "K", "L", "M",
              "N", "O", "P", "Q", "R", "S", "T", "U", "V", "W", "X", "Y", "Z">>

\* unicode.ToLower(c)
ToLower(c) ==
    IF \E i \in DOMAIN UpperSeq : UpperSeq[i] = c
    THEN LowerSeq[CHOOSE i \in DOMAIN UpperSeq : UpperSeq[i] = c]
    ELSE c

\* the rune 0: lastUpper when no uppercase character is buffered
NoRune == ""

\* the loop of camelToSnake putting a delimiter only before the first
\* uppercase character of a row
RECURSIVE camelToSnakeFromFirstInRowOnly(_, _, _, _, _)
camelToSnakeFromFirstInRowOnly(name, i, buf, multipleUpper, lastUpper) ==
    IF i > Len(name)
    THEN IF lastUpper # NoRune THEN Append(buf, ToLower(lastUpper)) ELSE buf
    ELSE LET c == name[i]
             isUpper == c \in Upper \/ (lastUpper # NoRune /\ c \notin Lower)
             firstInRow == ~multipleUpper
             flushed ==
                 IF lastUpper # NoRune
                 THEN (IF Len(buf) > 0 /\ firstInRow
                       THEN Append(buf, "_") ELSE buf) \o <<ToLower(lastUpper)>>
                 ELSE buf
         IN  IF isUpper
             THEN camelToSnakeFromFirstInRowOnly(name, i + 1, flushed, lastUpper # NoRune, c)
             ELSE camelToSnakeFromFirstInRowOnly(name, i + 1, Append(flushed, c), FALSE, NoRune)

\* camelToSnake, lines 290-324: the loop from character i of name on, with
\* the buffer buf (ret) and the locals multipleUpper and lastUpper, and the flush
\* after the loop
RECURSIVE camelToSnakeFrom(_, _, _, _, _)
camelToSnakeFrom(name, i, buf, multipleUpper, lastUpper) ==
    IF i > Len(name)
    THEN IF lastUpper # NoRune THEN Append(buf, ToLower(lastUpper)) ELSE buf
    ELSE LET c == name[i]
             isUpper == c \in Upper \/ (lastUpper # NoRune /\ c \notin Lower)
             firstInRow == ~multipleUpper
             lastInRow == ~isUpper
             flushed ==
                 IF lastUpper # NoRune
                 THEN (IF Len(buf) > 0 /\ (firstInRow \/ lastInRow)
                       THEN Append(buf, "_") ELSE buf) \o <<ToLower(lastUpper)>>
                 ELSE buf
         IN  IF isUpper
             THEN camelToSnakeFrom(name, i + 1, flushed, lastUpper # NoRune, c)
             ELSE camelToSnakeFrom(name, i + 1, Append(flushed, c), FALSE, NoRune)

\* camelToSnake(name)
camelToSnake(name) == camelToSnakeFrom(name, 1, <<>>, FALSE, NoRune)

\* strings.Split(s, ",")[0]: s up to its first comma
SplitFirst(s) ==
    LET commas == {i \in DOMAIN s : s[i] = ","}
    IN  IF commas = {} THEN s
        ELSE SubSeq(s, 1, (CHOOSE i \in commas : \A j \in commas : i <= j) - 1)

\* DefaultFieldNamer.GetJSONFieldName(t, f); f.Tag is f.Tag.Get("json")
DefaultFieldNamer_GetJSONFieldName(f) ==
    LET jsonName == SplitFirst(f.Tag)
    IN  IF jsonName # <<>> THEN jsonName ELSE f.Name

\* SnakeCaseFieldNamer.GetJSONFieldName converting whatever name it returns
SnakeCaseFieldNamerConvertingTag(f) ==
    LET jsonName == SplitFirst(f.Tag)
    IN  IF jsonName # <<>> THEN camelToSnake(jsonName) ELSE camelToSnake(f.Name)

\* SnakeCaseFieldNamer.GetJSONFieldName(t, f); f.Tag is f.Tag.Get("json")
SnakeCaseFieldNamer_GetJSONFieldName(f) ==
    LET jsonName == SplitFirst(f.Tag)
    IN  IF jsonName # <<>> THEN jsonName ELSE camelToSnake(f.Name)

\* the characters of the identifiers tried: a lowercase letter, an uppercase
\* letter, a digit and the underscore
IdentChars == {"a", "B", "1", "_"}

NameID == <<"I", "D">>

NameUserID == <<"U", "s", "e", "r", "I", "D">>

NameHTTPServer == <<"H", "T", "T", "P", "S", "e", "r", "v", "e", "r">>

NameAlreadySnake ==
    <<"a", "l", "r", "e", "a", "d", "y", "_", "s", "n", "a", "k", "e">>

\* field names: every identifier of at most MaxIdent characters and the
\* longer names the package is known by
FieldNames ==
    UNION {[1..n -> IdentChars] : n \in 0..MaxIdent}
    \cup {NameID, NameUserID, NameHTTPServer, NameAlreadySnake}

\* values of the json key of a field's tag: none, a name, a name with an
\* uppercase letter, a name with an option, an option alone, a comma alone
JSONTags ==
    {<<>>, <<"u", "n">>, <<"U", "n">>, <<"u", "n", ",", "o">>, <<",", "o">>, <<",">>}

\* a field is given to the naming functions
InitNamer ==
    /\ InitGenerator
    /\ field \in [Name : FieldNames, Tag : JSONTags]
    /\ jsonNames = <<>>

DefaultFieldNamerCall ==
    /\ jsonNames' = Put(jsonNames, "DefaultFieldNamer",
                        DefaultFieldNamer_GetJSONFieldName(field))
    /\ UNCHANGED <<genVars, callVars, histVars, nameVars, aliasVars, field>>

SnakeCaseFieldNamerCall ==
    /\ jsonNames' = Put(jsonNames, "SnakeCaseFieldNamer",
                        SnakeCaseFieldNamer_GetJSONFieldName(field))
    /\ UNCHANGED <<genVars, callVars, histVars, nameVars, aliasVars, field>>

CamelToSnakeCall ==
    /\ jsonNames' = Put(jsonNames, "camelToSnake", camelToSnake(field.Name))
    /\ UNCHANGED <<genVars, callVars, histVars, nameVars, aliasVars, field>>

NextNamer ==
    \/ DefaultFieldNamerCall
    \/ SnakeCaseFieldNamerCall
    \/ CamelToSnakeCall

\* The naming functions applied to one field.
SpecNamer == InitNamer /\ [][NextNamer]_vars

\* ----------------------------------------------------------- naming claims

\* C13: camelToSnake returns id for ID, user_id for UserID, http_server for
\* HTTPServer, already_snake for already_snake and the empty string for the
\* empty string.
C13_Fixtures ==
    "camelToSnake" \in DOMAIN jsonNames =>
        LET snake == jsonNames["camelToSnake"]
        IN  /\ field.Name = NameID => snake = <<"i", "d">>
            /\ field.Name = NameUserID => snake = <<"u", "s", "e", "r", "_", "i", "d">>
            /\ field.Name = NameHTTPServer =>
                   snake = <<"h", "t", "t", "p", "_", "s", "e", "r", "v", "e", "r">>
            /\ field.Name = NameAlreadySnake => snake = NameAlreadySnake
            /\ field.Name = <<>> => snake = <<>>

\* camelToSnake has returned http_server for HTTPServer.
C13_Witness ==
    /\ field.Name = NameHTTPServer
    /\ "camelToSnake" \in DOMAIN jsonNames
    /\ jsonNames["camelToSnake"] =
           <<"h", "t", "t", "p", "_", "s", "e", "r", "v", "e", "r">>

\* C14: when the json tag begins with a non-empty component (the tag is that
\* component alone or that component, a comma and the rest), both namers
\* return that component as it is; when the tag is empty or begins with a
\* comma, DefaultFieldNamer returns the field name and SnakeCaseFieldNamer
\* returns camelToSnake of the field name.
C14_TagWins ==
    LET tag == field.Tag
        first(r) == /\ r # <<>>
                    /\ \A i \in DOMAIN r : r[i] # ","
                    /\ Len(r) <= Len(tag)
                    /\ SubSeq(tag, 1, Len(r)) = r
                    /\ (Len(tag) > Len(r) => tag[Len(r) + 1] = ",")
        noFirst == tag = <<>> \/ tag[1] = ","
    IN  /\ "DefaultFieldNamer" \in DOMAIN jsonNames =>
              IF noFirst THEN jsonNames["DefaultFieldNamer"] = field.Name
              ELSE first(jsonNames["DefaultFieldNamer"])
        /\ "SnakeCaseFieldNamer" \in DOMAIN jsonNames =>
              IF noFirst
              THEN jsonNames["SnakeCaseFieldNamer"] = camelToSnake(field.Name)
              ELSE first(jsonNames["SnakeCaseFieldNamer"])

\* Both namers have named the field UserID whose tag has an option and no
\* name: one returned UserID, the other user_id.
C14_Witness ==
    /\ DOMAIN jsonNames = {"DefaultFieldNamer", "SnakeCaseFieldNamer", "camelToSnake"}
    /\ field.Name = NameUserID
    /\ field.Tag = <<",", "o">>
    /\ jsonNames["DefaultFieldNamer"] = NameUserID
    /\ jsonNames["SnakeCaseFieldNamer"] = <<"u", "s", "e", "r", "_", "i", "d">>

\* C20: wherever an uppercase letter follows a lowercase letter in the
\* input, the output of camelToSnake has a '_' immediately before the
\* lowercase form of that uppercase letter.
C20_SeparatorBeforeUpper ==
    "camelToSnake" \in DOMAIN jsonNames =>
        LET name == field.Name
            snake == jsonNames["camelToSnake"]
        IN  \A i \in 1..(Len(name) - 1) :
                (name[i] \in Lower /\ name[i + 1] \in Upper) =>
                    \E j \in 1..(Len(snake) - 1) :
                        snake[j] = "_" /\ snake[j + 1] = ToLower(name[i + 1])


\* ----------------------------------------------------------- header claims

\* the characters of aliases in the order of their bytes
ByteOrder ==
    <<".", "/">> \o DigitChars \o UpperSeq \o <<"_">> \o LowerSeq

Ord(c) == CHOOSE i \in DOMAIN ByteOrder : ByteOrder[i] = c

\* a < b for strings, as sort.Strings compares them
StrLess(a, b) ==
    \E k \in 1..(Len(a) + 1) :
        /\ \A i \in 1..(k - 1) : i <= Len(b) /\ a[i] = b[i]
        /\ IF k = Len(a) + 1 THEN Len(b) >= k
           ELSE k <= Len(b) /\ Ord(a[k]) < Ord(b[k])

\* the lines of the import list among the lines printed
ImportLines == SelectSeq(printed, LAMBDA l : l[1] = "  %s %q")

\* C15: the import list of the header Run printed has one line for every
\* entry of the imports table, no entry twice, in ascending order of alias.
C15_ImportsSortedByAlias ==
    ReturnedNil =>
        /\ Len(ImportLines) = Cardinality(DOMAIN imports)
        /\ \A p \in DOMAIN imports :
              \E i \in DOMAIN ImportLines :
                  ImportLines[i] = <<"  %s %q", imports[p], p>>
        /\ \A i, j \in DOMAIN ImportLines :
              i < j => StrLess(ImportLines[i][2], ImportLines[j][2])


\* ------------------------------------------------------- more on traversal

\* C16: a Run call in progress eventually returns, and when Run has returned
\* nil no type is pending.
C16_RunTerminates ==
    /\ (pc \notin {"idle", "returned"}) ~> (pc = "returned")
    /\ [](ReturnedNil => Len(typesUnseen) = 0)

\* Run returned nil after it emitted every type, one of them discovered by a
\* collaborator while Run was emitting another.
C16_Witness ==
    /\ ReturnedNil
    /\ Len(typesUnseen) = 0
    /\ typesSeen = Types
    /\ \E t \in Types : <<t, "new">> \in nested
    /\ \A i \in DOMAIN log : log[i][3] = Nil


\* the last collaborator call of this Run call was for a type all of whose
\* emissions are done
GroupDone(i) ==
    /\ log[i][3] = Nil
    /\ \/ log[i][1] = "unmarshaller"
       \/ log[i][1] = "encoder" /\ log[i][2] \notin marshallers

\* C17: the collaborators are called for a type that is already marked seen,
\* in the order decoder, encoder and then, for a type in g.marshallers only,
\* marshaller, unmarshaller; the emissions of one type are over before the
\* next type is popped; the type popped is the last of the pending list.
C17_FixedOrder ==
    /\ [](/\ \A i \in DOMAIN log :
               /\ log[i][2] \in typesSeen
               /\ log[i][1] = "decoder" =>
                     i = 1 \/ (GroupDone(i - 1) /\ log[i - 1][2] # log[i][2])
               /\ log[i][1] = "encoder" =>
                     i > 1 /\ log[i - 1] = <<"decoder", log[i][2], Nil>>
               /\ log[i][1] = "marshaller" =>
                     /\ i > 1 /\ log[i - 1] = <<"encoder", log[i][2], Nil>>
                     /\ log[i][2] \in marshallers
               /\ log[i][1] = "unmarshaller" =>
                     i > 1 /\ log[i - 1] = <<"marshaller", log[i][2], Nil>>
          /\ pc \in {"loop", "decoder"} => (log = <<>> \/ GroupDone(Len(log)))
          /\ pc = "decoder" => cur \in typesSeen
          /\ pc = "encoder" =>
                log # <<>> /\ log[Len(log)] = <<"decoder", cur, Nil>>
          /\ pc = "marshaller" =>
                /\ log # <<>> /\ log[Len(log)] = <<"encoder", cur, Nil>>
                /\ cur \in marshallers
          /\ pc = "unmarshaller" =>
                log # <<>> /\ log[Len(log)] = <<"marshaller", cur, Nil>>)
    /\ [][/\ (typesSeen' # typesSeen \/ Len(typesUnseen') < Len(typesUnseen)) =>
               /\ pc = "loop" /\ pc' = "decoder"
               /\ Len(typesUnseen) > 0
               /\ cur' = typesUnseen[Len(typesUnseen)]
               /\ typesUnseen' = SubSeq(typesUnseen, 1, Len(typesUnseen) - 1)
               /\ typesSeen' = typesSeen \cup {cur'}
          /\ Len(log') > Len(log) =>
               /\ Len(log') = Len(log) + 1
               /\ log'[Len(log')][2] = cur
               /\ log'[Len(log')][1] = pc]_vars

\* Run returned nil having emitted two types that were both pending when it
\* began: first one outside g.marshallers (decoder, encoder), then one in
\* g.marshallers (all four).
C17_Witness ==
    /\ ReturnedNil
    /\ nested = {}
    /\ Len(log) = 6
    /\ log[1][2] \notin marshallers
    /\ log[3][2] \in marshallers
    /\ log[3][2] # log[1][2]


\* C19: when Run has returned nil (no Run call having aborted), the
\* marshaller and the unmarshaller have been emitted for every type in
\* g.marshallers.
C19_MarshallersAllEmitted ==
    (ReturnedNil /\ ~aborted) =>
        \A t \in marshallers :
            calls["marshaller"][t] >= 1 /\ calls["unmarshaller"][t] >= 1

====
